---- MODULE Spec2Model ----
(***************************************************************************)
(* Trailhead certification sync (getTrailheadData.py).                     *)
(*                                                                         *)
(* One run of main(): connect, load the roster of active usernames, and    *)
(* for each username fetch + extract the certifications and reconcile them *)
(* into trailhead_user / trailhead_cert / trailhead_user_cert; then one    *)
(* commit, the CSV export, and conn.close() in the finally block.          *)
(*                                                                         *)
(* Text is a sequence of one-character strings, a calendar date is a       *)
(* triple <<year, month, day>>, Python None / SQL NULL is <<"None">>.      *)
(* A decoded JSON value is a record [t |-> type tag, v |-> payload].       *)
(***************************************************************************)
EXTENDS Integers, Sequences, FiniteSets, TLC

VARIABLES
    pc,                  \* position of main(): start, setup, fetch, upsert_user, ...
    runs,                \* number of runs of main() started so far
    now,                 \* CURRENT_TIMESTAMP of the store
    conn,                \* "none" | "open" | "closed"
    closes,              \* how many times conn.close() ran in this run
    profiles,            \* main: the roster returned by load_profiles_from_db
    idx,                 \* main: position of the for loop in profiles
    ok,                  \* main: success counter
    errors,              \* main: error counter
    response,            \* what the profile fetch service answered last
    r,                   \* main: the last return value of fetch_certifications
    user_id,             \* sync_user_to_db: id returned by upsert_user
    cert_id,             \* sync_user_to_db: id returned by upsert_cert
    j,                   \* sync_user_to_db: position of the for loop in certs_raw
    trailhead_user,      \* table, as seen inside the connection's transaction
    trailhead_cert,      \* table, as seen inside the connection's transaction
    trailhead_user_cert, \* table, as seen inside the connection's transaction
    committed,           \* the three tables as committed in the store
    exc,                 \* the exception that is propagating out of main, or "none"
    exit_status,         \* process exit status of the run, -1 while running
    last_sync            \* history: arguments and outcome of the last completed sync

vars == <<pc, runs, now, conn, closes, profiles, idx, ok, errors, response, r,
          user_id, cert_id, j, trailhead_user, trailhead_cert,
          trailhead_user_cert, committed, exc, exit_status, last_sync>>

----------------------------------------------------------------------------
(* Bounds *)

MaxClock == 1
MaxRuns  == 2
MaxCerts == 2

----------------------------------------------------------------------------
(* Python values *)

None == <<"None">>
NULL == None

JNull      == [t |-> "None", v |-> <<>>]
JStr(s)    == [t |-> "str",  v |-> s]
JInt(n)    == [t |-> "int",  v |-> n]
JList(l)   == [t |-> "list", v |-> l]
JDict(d)   == [t |-> "dict", v |-> d]
EmptyDict  == JDict(<<>>)

\* bool(x) of a decoded JSON value
Truthy(x) ==
    CASE x.t = "None" -> FALSE
      [] x.t = "int"  -> x.v # 0
      [] x.t = "str"  -> Len(x.v) > 0
      [] x.t = "list" -> Len(x.v) > 0
      [] x.t = "dict" -> DOMAIN x.v # {}

\* dict.get(k): the value, or None when the key is absent
Get(d, k) == IF k \in DOMAIN d.v THEN d.v[k] ELSE JNull

\* x or default
Or(x, default) == IF Truthy(x) THEN x ELSE default

Whitespace == {" ", "\t", "\n", "\r"}

RECURSIVE lstrip(_)
lstrip(s) ==
    IF s # <<>> /\ Head(s) \in Whitespace THEN lstrip(Tail(s)) ELSE s

RECURSIVE rstrip(_)
rstrip(s) ==
    IF s # <<>> /\ s[Len(s)] \in Whitespace
    THEN rstrip(SubSeq(s, 1, Len(s) - 1)) ELSE s

\* str.strip()
strip(s) == rstrip(lstrip(s))

----------------------------------------------------------------------------
(* parse_iso_date *)

Digits == {"0", "1", "2", "3", "4", "5", "6", "7", "8", "9"}

DigitVal(c) ==
    CASE c = "0" -> 0 [] c = "1" -> 1 [] c = "2" -> 2 [] c = "3" -> 3
      [] c = "4" -> 4 [] c = "5" -> 5 [] c = "6" -> 6 [] c = "7" -> 7
      [] c = "8" -> 8 [] c = "9" -> 9

IsLeap(y) == (y % 4 = 0 /\ y % 100 # 0) \/ y % 400 = 0

DaysInMonth(y, m) ==
    IF m = 2 THEN (IF IsLeap(y) THEN 29 ELSE 28)
    ELSE IF m \in {4, 6, 9, 11} THEN 30 ELSE 31

\* %m : 1[0-2] | 0[1-9] | [1-9]
MatchMonth(s) ==
    \/ Len(s) = 2 /\ s[1] = "1" /\ s[2] \in {"0", "1", "2"}
    \/ Len(s) = 2 /\ s[1] = "0" /\ s[2] \in Digits \ {"0"}
    \/ Len(s) = 1 /\ s[1] \in Digits \ {"0"}

\* %d : 3[0-1] | [1-2]\d | 0[1-9] | [1-9] | " "[1-9]
MatchDay(s) ==
    \/ Len(s) = 2 /\ s[1] = "3" /\ s[2] \in {"0", "1"}
    \/ Len(s) = 2 /\ s[1] \in {"1", "2"} /\ s[2] \in Digits
    \/ Len(s) = 2 /\ s[1] \in {"0", " "} /\ s[2] \in Digits \ {"0"}
    \/ Len(s) = 1 /\ s[1] \in Digits \ {"0"}

\* value of a one- or two-character field matched by MatchMonth / MatchDay
FieldVal(s) ==
    IF Len(s) = 1 THEN DigitVal(s[1])
    ELSE (IF s[1] = " " THEN 0 ELSE 10 * DigitVal(s[1])) + DigitVal(s[2])

\* datetime.strptime(s, "%Y-%m-%d").date(), None standing for ValueError
strptime_date(s) ==
    LET n == Len(s)
        \* the month field ends before the second "-"
        mlen == IF n >= 7 /\ s[7] = "-" THEN 1 ELSE 2
        mstr == SubSeq(s, 6, 5 + mlen)
        dstr == SubSeq(s, 7 + mlen, n)
        wellFormed ==
            /\ n >= 8
            /\ \A i \in 1..4 : s[i] \in Digits
            /\ s[5] = "-"
            /\ n >= 6 + mlen
            /\ s[6 + mlen] = "-"
            /\ MatchMonth(mstr)
            /\ MatchDay(dstr)
    IN  IF ~wellFormed THEN None
        ELSE LET y == 1000 * DigitVal(s[1]) + 100 * DigitVal(s[2])
                      + 10 * DigitVal(s[3]) + DigitVal(s[4])
                 m == FieldVal(mstr)
                 d == FieldVal(dstr)
             IN  IF y >= 1 /\ d <= DaysInMonth(y, m) THEN <<y, m, d>> ELSE None

\* d[:10]
Slice10(s) == SubSeq(s, 1, IF Len(s) < 10 THEN Len(s) ELSE 10)

parse_iso_date(d) ==
    IF ~Truthy(d) THEN None
    ELSE IF d.t # "str" THEN None          \* d[:10] or strptime raises: caught
    ELSE strptime_date(Slice10(d.v))

----------------------------------------------------------------------------
(* fetch_certifications *)

\* a return value / a raised exception of a function
Return(v) == [raised |-> FALSE, exc |-> "none", value |-> v]
Raise(e)  == [raised |-> TRUE,  exc |-> e,      value |-> None]

\* product = c.get("product"), as Python hands it to the store: a str or None
PyText(x) == IF x.t = "str" THEN x.v ELSE None

\* the for loop over certifications, from entry i on
RECURSIVE normalize(_, _)
normalize(certifications, i) ==
    IF i > Len(certifications) THEN Return(<<>>)
    ELSE
      LET c == certifications[i] IN
      IF c.t # "dict" THEN Raise("AttributeError")          \* c.get
      ELSE
        LET t == Or(Get(c, "title"), JStr(<<>>)) IN
        IF t.t # "str" THEN Raise("AttributeError")         \* .strip()
        ELSE
          LET title == strip(t.v)
              dc    == parse_iso_date(Get(c, "dateCompleted"))
              de    == parse_iso_date(Get(c, "dateExpired"))
              rest  == normalize(certifications, i + 1)
          IN  IF title = <<>> THEN rest
              ELSE IF dc = None THEN rest
              ELSE IF rest.raised THEN rest
              ELSE Return(<<[title         |-> title,
                             product       |-> PyText(Get(c, "product")),
                             dateCompleted |-> dc,
                             dateExpired   |-> de]>> \o rest.value)

\* lines 158-189: the profile and its certifications are taken out of the body
extract_certifications(username, data) ==
    IF data.t # "dict" THEN Raise("AttributeError")       \* data.get
    ELSE
      LET d == Or(Get(data, "data"), EmptyDict) IN
      IF d.t # "dict" THEN Raise("AttributeError")        \* (...).get
      ELSE
        LET profile == Get(d, "profile") IN
        IF ~Truthy(profile)
        THEN Return([Username |-> username, Error |-> "No public profile found"])
        ELSE IF profile.t # "dict" THEN Raise("AttributeError")
        ELSE
          LET credential == Or(Get(profile, "credential"), EmptyDict) IN
          IF credential.t # "dict" THEN Raise("AttributeError")
          ELSE
            LET certifications ==
                    Or(Get(credential, "certifications"), JList(<<>>)) IN
            IF certifications.t # "list"
            THEN Raise(IF certifications.t = "int"
                       THEN "TypeError" ELSE "AttributeError")
            ELSE
              LET norm == normalize(certifications.v, 1) IN
              IF norm.raised THEN norm
              ELSE Return([Username |-> username,
                           CertificationsRaw |-> norm.value])

\* mutant of fetch_certifications: the status code is not looked at
fetch_certifications_IgnoresStatus(username, resp) ==
    IF resp.post_raises
    THEN Return([Username |-> username, Error |-> "Request failed: " \o resp.reason])
    ELSE IF ~resp.is_json
    THEN Return([Username |-> username, Error |-> "Invalid JSON: " \o resp.reason])
    ELSE extract_certifications(username, resp.body)

fetch_certifications(username, resp) ==
    IF resp.post_raises
    THEN Return([Username |-> username, Error |-> "Request failed: " \o resp.reason])
    ELSE IF resp.status_code # 200
    THEN Return([Username |-> username,
                 Error |-> "HTTP " \o ToString(resp.status_code)])
    ELSE IF ~resp.is_json
    THEN Return([Username |-> username, Error |-> "Invalid JSON: " \o resp.reason])
    ELSE extract_certifications(username, resp.body)

\* mutant of HasError: the key is looked up under another spelling
HasError_WrongKey(res) == "error" \in DOMAIN res /\ res.error # ""

\* r.get("Error")
HasError(res) == "Error" \in DOMAIN res /\ res.Error # ""

----------------------------------------------------------------------------
(* The store: unique keys of the three tables *)

\* trailhead_user: username is unique
UserKey(row) == row.username

\* trailhead_cert: (title, product) is unique, an absent product being a value
CertKey(row) == <<row.title, row.product>>

\* trailhead_user_cert: (user_id, cert_id) is unique
UserCertKey(row) == <<row.user_id, row.cert_id>>

\* AUTO_INCREMENT id of the next inserted row
NextId(tbl) ==
    IF tbl = {} THEN 1
    ELSE (CHOOSE i \in {row.id : row \in tbl} :
              \A k \in {row.id : row \in tbl} : k <= i) + 1

----------------------------------------------------------------------------
(* upsert_user, upsert_cert, upsert_user_cert: the table after the statement *)
(* executed at time t, and the id the function returns                       *)

\* mutant of upsert_user: the table has no unique key on username
upsert_user_NoUniqueKey(tbl, t, name, username) ==
    LET new == [id |-> NextId(tbl), name |-> name, username |-> username,
                active |-> 1, updated_at |-> t]
    IN  [table |-> tbl \cup {new}, id |-> new.id]

upsert_user(tbl, t, name, username) ==
    LET dup == {row \in tbl : UserKey(row) = username}
        tbl2 ==
            IF dup = {}
            THEN tbl \cup {[id |-> NextId(tbl), name |-> name,
                            username |-> username, active |-> 1,
                            updated_at |-> t]}
            ELSE {IF row \in dup
                  THEN [row EXCEPT !.name = name, !.updated_at = t]
                  ELSE row : row \in tbl}
    IN  [table |-> tbl2,
         id    |-> (CHOOSE row \in tbl2 : row.username = username).id]

\* mutant of upsert_cert: the unique key does not see a NULL product as equal
\* to a NULL product
upsert_cert_NullUnsafe(tbl, title, product) ==
    LET dup == {row \in tbl : /\ product # NULL
                              /\ CertKey(row) = <<title, product>>}
        new == [id |-> NextId(tbl), title |-> title, product |-> product]
        tbl2 == IF dup = {} THEN tbl \cup {new} ELSE tbl
    IN  [table |-> tbl2,
         id    |-> IF dup = {} THEN new.id ELSE (CHOOSE row \in dup : TRUE).id]

\* mutant of upsert_cert: the id is looked up by title alone
upsert_cert_SelectByTitle(tbl, title, product) ==
    LET dup == {row \in tbl : CertKey(row) = <<title, product>>}
        tbl2 ==
            IF dup = {}
            THEN tbl \cup {[id |-> NextId(tbl), title |-> title,
                            product |-> product]}
            ELSE tbl
    IN  [table |-> tbl2,
         id    |-> (CHOOSE row \in tbl2 : row.title = title).id]

upsert_cert(tbl, title, product) ==
    LET dup == {row \in tbl : CertKey(row) = <<title, product>>}
        tbl2 ==
            IF dup = {}
            THEN tbl \cup {[id |-> NextId(tbl), title |-> title,
                            product |-> product]}
            ELSE {IF row \in dup
                  THEN [row EXCEPT !.title = title, !.product = product]
                  ELSE row : row \in tbl}
    IN  [table |-> tbl2,
         \* WHERE title=%s AND (product <=> %s)
         id    |-> (CHOOSE row \in tbl2 :
                        row.title = title /\ row.product = product).id]

\* mutant of upsert_user_cert: the update clause assigns the wrong column
upsert_user_cert_WrongColumn(tbl, t, uid, cid, date_completed, date_expired) ==
    LET dup == {row \in tbl : UserCertKey(row) = <<uid, cid>>}
    IN  IF dup = {}
        THEN tbl \cup {[user_id |-> uid, cert_id |-> cid,
                        date_completed |-> date_completed,
                        date_expired |-> date_expired,
                        updated_at |-> t]}
        ELSE {IF row \in dup
              THEN [row EXCEPT !.date_completed = date_expired,
                               !.updated_at = t]
              ELSE row : row \in tbl}

\* mutant of upsert_user_cert: the two ids are bound in the wrong order
upsert_user_cert_SwappedIds(tbl, t, uid, cid, date_completed, date_expired) ==
    LET dup == {row \in tbl : UserCertKey(row) = <<cid, uid>>}
    IN  IF dup = {}
        THEN tbl \cup {[user_id |-> cid, cert_id |-> uid,
                        date_completed |-> date_completed,
                        date_expired |-> date_expired,
                        updated_at |-> t]}
        ELSE {IF row \in dup
              THEN [row EXCEPT !.date_expired = date_expired,
                               !.updated_at = t]
              ELSE row : row \in tbl}

\* mutant of upsert_user_cert: the unique key is cert_id alone
upsert_user_cert_KeyedByCert(tbl, t, uid, cid, date_completed, date_expired) ==
    LET dup == {row \in tbl : row.cert_id = cid}
    IN  IF dup = {}
        THEN tbl \cup {[user_id |-> uid, cert_id |-> cid,
                        date_completed |-> date_completed,
                        date_expired |-> date_expired,
                        updated_at |-> t]}
        ELSE {IF row \in dup
              THEN [row EXCEPT !.date_expired = date_expired,
                               !.updated_at = t]
              ELSE row : row \in tbl}

upsert_user_cert(tbl, t, uid, cid, date_completed, date_expired) ==
    LET dup == {row \in tbl : UserCertKey(row) = <<uid, cid>>}
    IN  IF dup = {}
        THEN tbl \cup {[user_id |-> uid, cert_id |-> cid,
                        date_completed |-> date_completed,
                        date_expired |-> date_expired,
                        updated_at |-> t]}
        ELSE {IF row \in dup
              THEN [row EXCEPT !.date_expired = date_expired,
                               !.updated_at = t]
              ELSE row : row \in tbl}

----------------------------------------------------------------------------
(* Inputs: the roster pool, and what the profile fetch service may answer *)

Ana      == <<"a", "n", "a">>
Ghost    == <<"g", "h", "o", "s", "t">>
AnaSmith == <<"A", "n", "a", " ", "S", "m", "i", "t", "h">>

Usernames == <<Ana, Ghost>>

\* names a trailhead_user row may carry before the first sync
InitNames == {NULL, AnaSmith}

PD1    == <<"P", "D", "1">>
Sales  == <<"S">>
D2023  == <<"2", "0", "2", "3", "-", "0", "3", "-", "0", "1">>
D2024  == <<"2", "0", "2", "4", "-", "0", "3", "-", "0", "1">>
D2022T == <<"2", "0", "2", "2", "-", "0", "2", "-", "2", "8", "T", "1", "0", "Z">>
DBad   == <<"2", "0", "2", "3", "-", "0", "2", "-", "3", "0">>

E1 == JDict([title |-> JStr(PD1), product |-> JNull,
             dateCompleted |-> JStr(D2023), dateExpired |-> JNull])
E2 == JDict([title |-> JStr(<<" ">> \o PD1 \o <<" ">>), product |-> JNull,
             dateCompleted |-> JStr(D2023), dateExpired |-> JStr(D2024)])
E3 == JDict([title |-> JStr(PD1), product |-> JStr(Sales),
             dateCompleted |-> JStr(D2023)])
E4 == JDict([title |-> JStr(PD1),
             dateCompleted |-> JStr(D2022T), dateExpired |-> JStr(D2024)])
EBlank  == JDict([title |-> JStr(<<" ", "\t">>), dateCompleted |-> JStr(D2023)])
ENoDate == JDict([title |-> JStr(PD1), dateCompleted |-> JStr(DBad)])

Http(status, isJson, body) ==
    [post_raises |-> FALSE, reason |-> "Expecting value", status_code |-> status,
     is_json |-> isJson, body |-> body]

Json(body) == Http(200, TRUE, body)

Profile(certifications) ==
    Json(JDict([data |-> JDict([profile |-> JDict(
        [id |-> JStr(<<"x">>),
         credential |-> JDict([certifications |-> certifications])])])]))

Responses == <<
    [post_raises |-> TRUE, reason |-> "timed out", status_code |-> 0,
     is_json |-> FALSE, body |-> JNull],
    Http(404, TRUE, Profile(JList(<<E1>>)).body),
    Http(200, FALSE, JNull),
    Json(JList(<<>>)),
    Json(EmptyDict),
    Json(JDict([data |-> JNull])),
    Json(JDict([data |-> JStr(<<"x">>)])),
    Json(JDict([data |-> JDict([profile |-> JNull])])),
    Json(JDict([data |-> JDict([profile |-> EmptyDict])])),
    Json(JDict([data |-> JDict([profile |-> JDict([id |-> JStr(<<"x">>)])])])),
    Profile(JList(<<E1>>)),
    Profile(JList(<<E2>>)),
    Profile(JList(<<E4>>)),
    Profile(JList(<<E1, E3>>)),
    Profile(JList(<<EBlank, ENoDate, E2>>)),
    Profile(JList(<<E1, JNull>>))
>>

----------------------------------------------------------------------------
(* State *)

Store == [trailhead_user      |-> trailhead_user,
          trailhead_cert      |-> trailhead_cert,
          trailhead_user_cert |-> trailhead_user_cert]

NoResult  == [Username |-> None]
NoSync    == [username |-> None, certs_raw |-> <<>>, state |-> <<>>, repeats |-> 0]

\* the position of main() between two statements that touch the store
StorePcs == {"setup", "upsert_user", "upsert_cert", "upsert_user_cert",
             "commit", "export"}

Init ==
    /\ pc = "start"
    /\ runs = 1
    /\ now = 0
    /\ conn = "none"
    /\ closes = 0
    /\ profiles = <<>>
    /\ idx = 0
    /\ ok = 0
    /\ errors = 0
    /\ response = Responses[1]
    /\ r = NoResult
    /\ user_id = 0
    /\ cert_id = 0
    /\ j = 0
    /\ \E names \in [1..Len(Usernames) -> InitNames],
          active \in [1..Len(Usernames) -> {0, 1}] :
          trailhead_user =
              {[id |-> i, name |-> names[i], username |-> Usernames[i],
                active |-> active[i], updated_at |-> 0] : i \in 1..Len(Usernames)}
    /\ trailhead_cert = {}
    /\ trailhead_user_cert = {}
    /\ committed = Store
    /\ exc = "none"
    /\ exit_status = -1
    /\ last_sync = NoSync

----------------------------------------------------------------------------
(* main *)

\* what a sync leaves in the store, timestamps aside
Rows(st) ==
    [users |-> {[id |-> row.id, username |-> row.username, name |-> row.name]
                    : row \in st.trailhead_user},
     certs |-> st.trailhead_cert,
     user_certs |-> {[user_id |-> row.user_id, cert_id |-> row.cert_id,
                      date_completed |-> row.date_completed,
                      date_expired |-> row.date_expired]
                         : row \in st.trailhead_user_cert}]

\* the elements of a set of ids, ascending
RECURSIVE Ascending(_)
Ascending(S) ==
    IF S = {} THEN <<>>
    ELSE LET m == CHOOSE x \in S : \A y \in S : x <= y
         IN  <<m>> \o Ascending(S \ {m})

\* load_profiles_from_db: SELECT username FROM trailhead_user WHERE active = 1,
\* the rows coming in primary key order
load_profiles_from_db(tbl) ==
    LET ids == Ascending({row.id : row \in {x \in tbl : x.active = 1}})
    IN  [i \in 1..Len(ids) |-> (CHOOSE row \in tbl : row.id = ids[i]).username]

\* mutant of AfterUser: the loop stops one username early
AfterUser_OffByOne(i) == IF i + 1 >= Len(profiles) THEN "commit" ELSE "fetch"

\* where the for loop of main goes after the username at position i
AfterUser(i) == IF i + 1 > Len(profiles) THEN "commit" ELSE "fetch"

locals == <<profiles, idx, ok, errors, response, r, user_id, cert_id, j>>
tables == <<trailhead_user, trailhead_cert, trailhead_user_cert>>

\* line 239, the connection is established
GetDbConnection ==
    /\ pc = "start"
    /\ conn' = "open"
    /\ pc' = "setup"
    /\ UNCHANGED <<runs, now, closes, locals, tables, committed, exc,
                   exit_status, last_sync>>

\* line 239, require_env or mysql.connector.connect raises: outside the try
GetDbConnectionFails ==
    /\ pc = "start"
    /\ exc' = "setup"
    /\ exit_status' = 1
    /\ pc' = "exit"
    /\ UNCHANGED <<runs, now, conn, closes, locals, tables, committed, last_sync>>

\* lines 241-249
LoadProfiles ==
    /\ pc = "setup"
    /\ profiles' = load_profiles_from_db(trailhead_user)
    /\ IF profiles' = <<>>
       THEN pc' = "finally" /\ UNCHANGED <<idx, ok, errors>>
       ELSE pc' = "fetch" /\ idx' = 1 /\ ok' = 0 /\ errors' = 0
    /\ UNCHANGED <<runs, now, conn, closes, response, r, user_id, cert_id, j,
                   tables, committed, exc, exit_status, last_sync>>

\* lines 252-256: fetch_certifications and the error branch of the loop
Fetch ==
    /\ pc = "fetch"
    /\ \E i \in 1..Len(Responses) :
          LET res == fetch_certifications(profiles[idx], Responses[i]) IN
          /\ response' = Responses[i]
          /\ IF res.raised
             THEN /\ exc' = res.exc
                  /\ pc' = "finally"
                  /\ UNCHANGED <<r, idx, errors>>
             ELSE /\ r' = res.value
                  /\ UNCHANGED exc
                  /\ IF HasError(res.value)
                     THEN /\ errors' = errors + 1
                          /\ idx' = idx + 1
                          /\ pc' = AfterUser(idx)
                     ELSE /\ pc' = "upsert_user"
                          /\ UNCHANGED <<idx, errors>>
    /\ UNCHANGED <<runs, now, conn, closes, profiles, ok, user_id, cert_id, j,
                   tables, committed, exit_status, last_sync>>

\* history: the sync of profiles[idx] with r["CertificationsRaw"] has finished
SyncDone(st) ==
    [username |-> profiles[idx], certs_raw |-> r.CertificationsRaw,
     state |-> Rows(st),
     repeats |-> IF /\ last_sync.username = profiles[idx]
                    /\ last_sync.certs_raw = r.CertificationsRaw
                 THEN last_sync.repeats + 1 ELSE 0]

\* line 194, and lines 258-259 when certs_raw is empty
UpsertUser ==
    /\ pc = "upsert_user"
    /\ LET username == profiles[idx]
           u == upsert_user(trailhead_user, now, username, username)
           st == [Store EXCEPT !.trailhead_user = u.table]
       IN  /\ trailhead_user' = u.table
           /\ user_id' = u.id
           /\ j' = 1
           /\ IF r.CertificationsRaw = <<>>
              THEN /\ ok' = ok + 1
                   /\ idx' = idx + 1
                   /\ pc' = AfterUser(idx)
                   /\ last_sync' = SyncDone(st)
              ELSE /\ pc' = "upsert_cert"
                   /\ last_sync' =
                        IF /\ last_sync.username = username
                           /\ last_sync.certs_raw = r.CertificationsRaw
                        THEN last_sync ELSE NoSync
                   /\ UNCHANGED <<ok, idx>>
    /\ UNCHANGED <<runs, now, conn, closes, profiles, errors, response, r,
                   cert_id, trailhead_cert, trailhead_user_cert, committed,
                   exc, exit_status>>

\* mutant of UpsertCert: the connection commits every statement
UpsertCert_Autocommit ==
    /\ pc = "upsert_cert"
    /\ LET c == r.CertificationsRaw[j]
           u == upsert_cert(trailhead_cert, c.title, c.product)
       IN  /\ trailhead_cert' = u.table
           /\ cert_id' = u.id
           /\ committed' = [Store EXCEPT !.trailhead_cert = u.table]
    /\ pc' = "upsert_user_cert"
    /\ UNCHANGED <<runs, now, conn, closes, profiles, idx, ok, errors, response, r,
                   user_id, j, trailhead_user, trailhead_user_cert, exc,
                   exit_status, last_sync>>

\* line 197
UpsertCert ==
    /\ pc = "upsert_cert"
    /\ LET c == r.CertificationsRaw[j]
           u == upsert_cert(trailhead_cert, c.title, c.product)
       IN  /\ trailhead_cert' = u.table
           /\ cert_id' = u.id
    /\ pc' = "upsert_user_cert"
    /\ UNCHANGED <<runs, now, conn, closes, profiles, idx, ok, errors, response, r,
                   user_id, j, trailhead_user,
                   trailhead_user_cert, committed, exc, exit_status, last_sync>>

\* line 198, and lines 258-259 after the last record
UpsertUserCert ==
    /\ pc = "upsert_user_cert"
    /\ LET c == r.CertificationsRaw[j]
           t == upsert_user_cert(trailhead_user_cert, now, user_id, cert_id,
                                 c.dateCompleted, c.dateExpired)
           st == [Store EXCEPT !.trailhead_user_cert = t]
       IN  /\ trailhead_user_cert' = t
           /\ IF j = Len(r.CertificationsRaw)
              THEN /\ ok' = ok + 1
                   /\ idx' = idx + 1
                   /\ pc' = AfterUser(idx)
                   /\ last_sync' = SyncDone(st)
                   /\ UNCHANGED j
              ELSE /\ j' = j + 1
                   /\ pc' = "upsert_cert"
                   /\ UNCHANGED <<ok, idx, last_sync>>
    /\ UNCHANGED <<runs, now, conn, closes, profiles, errors, response, r,
                   user_id, cert_id, trailhead_user, trailhead_cert, committed,
                   exc, exit_status>>

\* line 261
Commit ==
    /\ pc = "commit"
    /\ committed' = Store
    /\ pc' = "export"
    /\ UNCHANGED <<runs, now, conn, closes, locals, tables, exc, exit_status,
                   last_sync>>

\* lines 264-270: the export reads the view and writes the CSV file
Export ==
    /\ pc = "export"
    /\ pc' = "finally"
    /\ UNCHANGED <<runs, now, conn, closes, locals, tables, committed, exc,
                   exit_status, last_sync>>

\* mutant of StoreFails: main treats a failed statement of sync_user_to_db like
\* an extraction error and goes on with the next username
StoreFails_Swallowed ==
    /\ pc \in StorePcs
    /\ exc' = "mysql.connector.Error"
    /\ IF pc \in {"upsert_user", "upsert_cert", "upsert_user_cert"}
       THEN /\ errors' = errors + 1
            /\ idx' = idx + 1
            /\ pc' = AfterUser(idx)
       ELSE /\ pc' = "finally"
            /\ UNCHANGED <<idx, errors>>
    /\ UNCHANGED <<runs, now, conn, closes, profiles, ok, response, r, user_id,
                   cert_id, j, tables, committed, exit_status, last_sync>>

\* a statement on the connection raises mysql.connector.Error
StoreFails ==
    /\ pc \in StorePcs
    /\ exc' = "mysql.connector.Error"
    /\ pc' = "finally"
    /\ UNCHANGED <<runs, now, conn, closes, locals, tables, committed,
                   exit_status, last_sync>>

\* mutant of Finally: conn.close() is the last statement of the try block, so
\* an exception passes it by
Finally_CloseInTry ==
    /\ pc = "finally"
    /\ conn' = (IF exc = "none" THEN "closed" ELSE conn)
    /\ closes' = (IF exc = "none" THEN closes + 1 ELSE closes)
    /\ trailhead_user' = committed.trailhead_user
    /\ trailhead_cert' = committed.trailhead_cert
    /\ trailhead_user_cert' = committed.trailhead_user_cert
    /\ last_sync' = IF Store = committed THEN last_sync ELSE NoSync
    /\ exit_status' = IF exc = "none" THEN 0 ELSE 1
    /\ pc' = "exit"
    /\ UNCHANGED <<runs, now, locals, committed, exc>>

\* lines 272-281: conn.close() discards what was not committed, then the
\* process ends with main's return value or with the propagating exception
Finally ==
    /\ pc = "finally"
    /\ conn' = "closed"
    /\ closes' = closes + 1
    /\ trailhead_user' = committed.trailhead_user
    /\ trailhead_cert' = committed.trailhead_cert
    /\ trailhead_user_cert' = committed.trailhead_user_cert
    /\ last_sync' = IF Store = committed THEN last_sync ELSE NoSync
    /\ exit_status' = IF exc = "none" THEN 0 ELSE 1
    /\ pc' = "exit"
    /\ UNCHANGED <<runs, now, locals, committed, exc>>

\* the job is started again
NextRun ==
    /\ pc = "exit"
    /\ runs < MaxRuns
    /\ runs' = runs + 1
    /\ pc' = "start"
    /\ conn' = "none"
    /\ closes' = 0
    /\ profiles' = <<>>
    /\ idx' = 0
    /\ ok' = 0
    /\ errors' = 0
    /\ response' = Responses[1]
    /\ r' = NoResult
    /\ user_id' = 0
    /\ cert_id' = 0
    /\ j' = 0
    /\ exc' = "none"
    /\ exit_status' = -1
    /\ UNCHANGED <<now, tables, committed, last_sync>>

\* CURRENT_TIMESTAMP moves on by a second: while a fetch is awaited, or
\* between two runs of the job
Tick ==
    /\ pc \in {"fetch", "exit"}
    /\ now < MaxClock
    /\ now' = now + 1
    /\ UNCHANGED <<pc, runs, conn, closes, locals, tables, committed, exc,
                   exit_status, last_sync>>

Next ==
    \/ GetDbConnection
    \/ GetDbConnectionFails
    \/ LoadProfiles
    \/ Fetch
    \/ UpsertUser
    \/ UpsertCert
    \/ UpsertUserCert
    \/ Commit
    \/ Export
    \/ StoreFails
    \/ Finally
    \/ NextRun
    \/ Tick

Spec == Init /\ [][Next]_vars

----------------------------------------------------------------------------
(* Steps of sync_user_to_db, as seen from outside *)

\* this step is upsert_user / upsert_cert / upsert_user_cert returning
UpsertUserRan     == pc = "upsert_user" /\ pc' # "upsert_user" /\ pc' # "finally"
UpsertCertRan     == pc = "upsert_cert" /\ pc' = "upsert_user_cert"
UpsertUserCertRan == pc = "upsert_user_cert" /\ pc' # "upsert_user_cert"
                                             /\ pc' # "finally"

\* this step is fetch_certifications returning to main
FetchRan      == pc = "fetch" /\ (pc' # "fetch" \/ idx' # idx)

IsErrorRecord(res)   == "Error" \in DOMAIN res
IsSuccessRecord(res) == "CertificationsRaw" \in DOMAIN res

UserRow(tbl, username) == CHOOSE row \in tbl : row.username = username
UserCertRows(tbl, uid, cid) ==
    {row \in tbl : row.user_id = uid /\ row.cert_id = cid}

----------------------------------------------------------------------------
(* C1 *)

\* C1: when upsert_user runs for a username whose stored row has a non-empty
\* name, the stored name is left unchanged.
C1_StickyName ==
    [][UpsertUserRan =>
         LET old == UserRow(trailhead_user, profiles[idx])
             new == UserRow(trailhead_user', profiles[idx])
         IN  (old.name # NULL /\ old.name # <<>>) => new.name = old.name]_vars

----------------------------------------------------------------------------
(* C2 *)

\* C2: when upsert_user_cert hits an existing (user_id, cert_id) row, the row's
\* updated_at is left as it was when the supplied date_expired equals the stored
\* one (null and null being equal), and advances when it differs and the clock
\* has moved on.
C2_ConditionalTimestamp ==
    [][(UpsertUserCertRan
          /\ UserCertRows(trailhead_user_cert, user_id, cert_id) # {}) =>
         \A old \in UserCertRows(trailhead_user_cert, user_id, cert_id) :
         \A new \in UserCertRows(trailhead_user_cert', user_id, cert_id) :
            LET c == r.CertificationsRaw[j] IN
            /\ c.dateExpired = old.date_expired
                  => new.updated_at = old.updated_at
            /\ (c.dateExpired # old.date_expired /\ now > old.updated_at)
                  => new.updated_at > old.updated_at]_vars

----------------------------------------------------------------------------
(* C3 *)

\* C3: when sync_user_to_db finishes for the username and the certification
\* list of the sync that finished last, nothing else having written in between,
\* the rows of the three tables (timestamps aside) are what that sync left:
\* no row is added, and name, title, product and both dates are the same.
C3_SyncIdempotent ==
    [][(/\ pc \in {"upsert_user", "upsert_user_cert"}
        /\ ok' = ok + 1
        /\ last_sync.username = profiles[idx]
        /\ last_sync.certs_raw = r.CertificationsRaw)
          => Rows([trailhead_user      |-> trailhead_user',
                   trailhead_cert      |-> trailhead_cert',
                   trailhead_user_cert |-> trailhead_user_cert'])
               = last_sync.state]_vars

\* the same list, holding a record with no product, was synced twice in a row
C3_Witness ==
    /\ last_sync.repeats >= 1
    /\ \E k \in DOMAIN last_sync.certs_raw : last_sync.certs_raw[k].product = None

----------------------------------------------------------------------------
(* C4 *)

\* C4: after upsert_user_cert ran for an existing (user_id, cert_id) row, the
\* stored date_completed and date_expired are the supplied ones.
C4_LatestDatesWin ==
    [][(UpsertUserCertRan
          /\ UserCertRows(trailhead_user_cert, user_id, cert_id) # {}) =>
         \A new \in UserCertRows(trailhead_user_cert', user_id, cert_id) :
            LET c == r.CertificationsRaw[j] IN
            /\ new.date_completed = c.dateCompleted
            /\ new.date_expired = c.dateExpired]_vars

----------------------------------------------------------------------------
(* C5 *)

CertRows(tbl, title, product) ==
    {row \in tbl : row.title = title /\ row.product = product}

OneRowPerPair(tbl) ==
    \A a, b \in tbl : (a.title = b.title /\ a.product = b.product) => a = b

\* C5: trailhead_cert holds at most one row per (title, product), an absent
\* product being a value of its own: an upsert of a pair that has a row adds
\* none, an upsert of a pair that has no row adds exactly one, also when a row
\* of the same title and another product exists.
C5_CertUnique ==
    /\ [](OneRowPerPair(trailhead_cert) /\ OneRowPerPair(committed.trailhead_cert))
    /\ [][UpsertCertRan =>
            LET c == r.CertificationsRaw[j] IN
            /\ Cardinality(CertRows(trailhead_cert', c.title, c.product)) = 1
            /\ CertRows(trailhead_cert, c.title, c.product) # {}
                  => trailhead_cert' = trailhead_cert
            /\ CertRows(trailhead_cert, c.title, c.product) = {}
                  => /\ trailhead_cert \subseteq trailhead_cert'
                     /\ Cardinality(trailhead_cert')
                          = Cardinality(trailhead_cert) + 1]_vars

\* a null-product pair was upserted again while the table holds a row of the
\* same title for the null product and one for a specific product
C5_Witness ==
    /\ pc = "upsert_user_cert"
    /\ runs = 2
    /\ r.CertificationsRaw[j].product = NULL
    /\ \E a, b \in committed.trailhead_cert :
          /\ a.title = b.title
          /\ a.title = r.CertificationsRaw[j].title
          /\ a.product = NULL
          /\ b.product # NULL
    /\ trailhead_cert = committed.trailhead_cert

----------------------------------------------------------------------------
(* C6 *)

SyncPcs == {"upsert_user", "upsert_cert", "upsert_user_cert"}

\* C6: a fetch that returns an error record writes nothing to the store,
\* adds one to errors, leaves ok alone and moves on to the next username;
\* sync_user_to_db only ever runs on the success record of its own username.
C6_ErrorIsolation ==
    /\ [][(FetchRan /\ pc' # "finally" /\ IsErrorRecord(r')) =>
            /\ UNCHANGED <<trailhead_user, trailhead_cert, trailhead_user_cert,
                           committed>>
            /\ errors' = errors + 1
            /\ ok' = ok
            /\ idx' = idx + 1
            /\ pc' = AfterUser(idx)]_vars
    /\ [](pc \in SyncPcs =>
            /\ ~IsErrorRecord(r)
            /\ IsSuccessRecord(r)
            /\ r.Username = profiles[idx])

\* "ana" was synced and wrote rows, then the fetch for "ghost" answered HTTP 404
C6_Witness ==
    /\ pc = "commit"
    /\ profiles = <<Ana, Ghost>>
    /\ IsErrorRecord(r)
    /\ r.Username = Ghost
    /\ r.Error = "HTTP 404"
    /\ errors = 1
    /\ ok = 1
    /\ trailhead_user_cert # committed.trailhead_user_cert

----------------------------------------------------------------------------
(* C7 *)

\* C7: the committed store changes only in the commit that follows the whole
\* roster, and then takes over every row written by every sync of the run; a
\* run that fails before that leaves the committed store as it found it, so no
\* user is ever committed in part.
C7_UnitOfWork ==
    [][committed' # committed =>
         /\ pc = "commit"
         /\ idx = Len(profiles) + 1
         /\ ok + errors = Len(profiles)
         /\ committed' = Store]_vars

\* a persistence failure between upsert_cert and upsert_user_cert of a sync:
\* the certification row is written, the relation row is not, nothing is
\* committed
C7_Witness ==
    /\ pc = "finally"
    /\ exc = "mysql.connector.Error"
    /\ IsSuccessRecord(r)
    /\ \E row \in trailhead_cert :
          row.id = cert_id /\ row \notin committed.trailhead_cert
    /\ UserCertRows(trailhead_user_cert, user_id, cert_id) = {}

----------------------------------------------------------------------------
(* C8 *)

StopsTheRun == {"setup", "mysql.connector.Error"}

\* C8: a run that ends without a failure ends with status 0 whatever the
\* number of per-user errors, and a run ends with a nonzero status only when a
\* setup failure or a persistence failure stopped it.
C8_ExitStatus ==
    pc = "exit" =>
        /\ exc = "none" => exit_status = 0
        /\ exit_status # 0 => exc \in StopsTheRun

----------------------------------------------------------------------------
(* C9 *)

\* C9: a run that no setup or persistence failure stopped ends after the whole
\* roster, every username counted once as a success or as an error, whatever
\* the profile fetch service answered.
C9_BatchNotAborted ==
    (pc = "exit" /\ exc \notin StopsTheRun) =>
        /\ exc = "none"
        /\ profiles # <<>> => (idx = Len(profiles) + 1
                               /\ ok + errors = Len(profiles))

----------------------------------------------------------------------------
(* C10 *)

\* the decoded response is not an object, or has no data (absent or null), or
\* its profile is absent, null or empty
LacksProfile(resp) ==
    /\ ~resp.post_raises
    /\ resp.status_code = 200
    /\ resp.is_json
    /\ \/ resp.body.t # "dict"
       \/ /\ resp.body.t = "dict"
          /\ LET d == Get(resp.body, "data") IN
             \/ d.t = "None"
             \/ /\ d.t = "dict"
                /\ LET p == Get(d, "profile") IN
                   \/ p.t = "None"
                   \/ p.t = "dict" /\ DOMAIN p.v = {}

\* C10: for a decoded response that lacks a profile, fetch_certifications
\* raises nothing and returns the error record "No public profile found".
C10_MissingProfileIsError ==
    LacksProfile(response) =>
        /\ exc \notin {"AttributeError", "TypeError"}
        /\ IsErrorRecord(r)
        /\ r.Error = "No public profile found"

----------------------------------------------------------------------------
(* fetch_certifications on its own: one answer of the profile fetch service, *)
(* drawn from a larger set, and the call that extracts it                    *)

Years    == {<<"2", "0", "2", "3">>, <<"2", "0", "2", "4">>,
             <<"0", "0", "0", "0">>, <<"2", "0", "2", "x">>}
Months   == {<<"0", "2">>, <<"2">>, <<"1", "2">>, <<"1", "3">>, <<"0", "0">>}
Days     == {<<"2", "9">>, <<"3", "0">>, <<"3", "1">>, <<"0", "1">>, <<"1">>,
             <<" ", "5">>, <<"0", "0">>}
Suffixes == {<<>>, <<"T", "1", "0", "Z">>, <<" ">>}

DateStrings ==
    {y \o <<"-">> \o m \o <<"-">> \o d \o x :
        y \in Years, m \in Months, d \in Days, x \in Suffixes}
    \cup {<<>>, D2022T, <<"2", "0", "2", "3", "0", "3", "0", "1">>}

\* a certification entry whose dateExpired is v
DateProbe(v) ==
    Profile(JList(<<JDict([title |-> JStr(PD1), dateCompleted |-> JStr(D2023),
                           dateExpired |-> v])>>))

ENoTitle   == JDict([dateCompleted |-> JStr(D2023), product |-> JStr(Sales)])
EBadExpiry == JDict([title |-> JStr(PD1), dateCompleted |-> JStr(D2023),
                     dateExpired |-> JStr(DBad)])

EntryPool == <<E1, E2, E3, E4, EBlank, ENoDate, ENoTitle, EBadExpiry, JNull>>

InitFetch ==
    /\ pc = "fetch"
    /\ runs = 1
    /\ now = 0
    /\ conn = "open"
    /\ closes = 0
    /\ profiles = <<Ana>>
    /\ idx = 1
    /\ ok = 0
    /\ errors = 0
    /\ \/ \E i \in 1..Len(Responses) : response = Responses[i]
       \/ \E x \in DateStrings : response = DateProbe(JStr(x))
       \/ \E v \in {JNull, JInt(20230301), JInt(0)} : response = DateProbe(v)
       \/ \E n \in 0..MaxCerts : \E f \in [1..n -> 1..Len(EntryPool)] :
             response = Profile(JList([i \in 1..n |-> EntryPool[f[i]]]))
    /\ r = NoResult
    /\ user_id = 0
    /\ cert_id = 0
    /\ j = 0
    /\ trailhead_user = {[id |-> 1, name |-> NULL, username |-> Ana,
                          active |-> 1, updated_at |-> 0]}
    /\ trailhead_cert = {}
    /\ trailhead_user_cert = {}
    /\ committed = Store
    /\ exc = "none"
    /\ exit_status = -1
    /\ last_sync = NoSync

\* line 252: r = fetch_certifications(username) on the answer at hand
FetchOne ==
    /\ pc = "fetch"
    /\ LET res == fetch_certifications(profiles[idx], response) IN
       IF res.raised
       THEN exc' = res.exc /\ UNCHANGED r
       ELSE r' = res.value /\ UNCHANGED exc
    /\ pc' = "fetched"
    /\ UNCHANGED <<runs, now, conn, closes, profiles, idx, ok, errors, response,
                   user_id, cert_id, j, tables, committed, exit_status, last_sync>>

NextFetch == FetchOne

SpecFetch == InitFetch /\ [][NextFetch]_vars

----------------------------------------------------------------------------
(* C11 *)

\* the decoded response carries a profile object
HasProfile(resp) ==
    /\ ~resp.post_raises
    /\ resp.status_code = 200
    /\ resp.is_json
    /\ resp.body.t = "dict"
    /\ Get(resp.body, "data").t = "dict"
    /\ Get(Get(resp.body, "data"), "profile").t = "dict"
    /\ DOMAIN Get(Get(resp.body, "data"), "profile").v # {}

\* the raw certification list of a profile, empty when absent at any level
RawCertifications(resp) ==
    LET cred == Get(Get(Get(resp.body, "data"), "profile"), "credential")
        list == IF cred.t = "dict" THEN Get(cred, "certifications") ELSE JNull
    IN  IF list.t = "list" THEN list.v ELSE <<>>

\* the entry has a title that is not blank and a completion date that
\* normalizes to a date
IsValidEntry(c) ==
    /\ c.t = "dict"
    /\ Get(c, "title").t = "str"
    /\ \E k \in DOMAIN Get(c, "title").v : Get(c, "title").v[k] \notin Whitespace
    /\ parse_iso_date(Get(c, "dateCompleted")) # None

RECURSIVE ValidEntries(_)
ValidEntries(list) ==
    IF list = <<>> THEN <<>>
    ELSE LET c == Head(list) IN
         (IF IsValidEntry(c)
          THEN <<[title         |-> strip(Get(c, "title").v),
                  product       |-> PyText(Get(c, "product")),
                  dateCompleted |-> parse_iso_date(Get(c, "dateCompleted")),
                  dateExpired   |-> parse_iso_date(Get(c, "dateExpired"))]>>
          ELSE <<>>) \o ValidEntries(Tail(list))

\* C11: for every raw certification list of a present profile, the call
\* raises nothing and returns exactly the valid entries, in their order,
\* every other entry being dropped.
C11_ValidityFilter ==
    (pc = "fetched" /\ HasProfile(response)) =>
        /\ exc = "none"
        /\ IsSuccessRecord(r)
        /\ r.CertificationsRaw = ValidEntries(RawCertifications(response))

----------------------------------------------------------------------------
(* C12 *)

\* the calendar date written as YYYY-MM-DD in the first 10 characters of a
\* string, None when there is none
IsoPrefixDate(v) ==
    IF v.t # "str" \/ Len(v.v) < 10 THEN None
    ELSE
      LET s == v.v IN
      IF ~(/\ \A i \in {1, 2, 3, 4, 6, 7, 9, 10} : s[i] \in Digits
           /\ s[5] = "-"
           /\ s[8] = "-")
      THEN None
      ELSE
        LET y  == 1000 * DigitVal(s[1]) + 100 * DigitVal(s[2])
                  + 10 * DigitVal(s[3]) + DigitVal(s[4])
            m  == 10 * DigitVal(s[6]) + DigitVal(s[7])
            d  == 10 * DigitVal(s[9]) + DigitVal(s[10])
        IN  IF y >= 1 /\ m \in 1..12 /\ d >= 1 /\ d <= DaysInMonth(y, m)
            THEN <<y, m, d>> ELSE None

\* the response holds one certification entry, valid but for its dateExpired
IsDateProbe(resp) ==
    /\ HasProfile(resp)
    /\ Len(RawCertifications(resp)) = 1
    /\ IsValidEntry(RawCertifications(resp)[1])
    /\ IsoPrefixDate(Get(RawCertifications(resp)[1], "dateCompleted")) # None

\* C12: parse_iso_date returns the date written as YYYY-MM-DD in the first 10
\* characters of its input, returns None for an absent, empty or otherwise
\* malformed input, and raises nothing.
C12_DateNormalization ==
    (pc = "fetched" /\ IsDateProbe(response)) =>
        /\ exc = "none"
        /\ IsSuccessRecord(r)
        /\ Len(r.CertificationsRaw) = 1
        /\ r.CertificationsRaw[1].dateCompleted
             = IsoPrefixDate(Get(RawCertifications(response)[1], "dateCompleted"))
        /\ r.CertificationsRaw[1].dateExpired
             = IsoPrefixDate(Get(RawCertifications(response)[1], "dateExpired"))

----------------------------------------------------------------------------
(* C13 *)

\* a statement of sync_user_to_db has failed in this run: the loop stands at a
\* roster username
SyncFailed == exc = "mysql.connector.Error" /\ idx \in 1..Len(profiles)

\* C13: when a store operation fails during sync_user_to_db, the failure leaves
\* the loop at once: no further username is fetched or reconciled, the commit
\* and the summary are not reached, the committed state stays what it was and
\* what the run wrote is discarded, and the process ends with a nonzero status.
C13_PersistenceFailureFatal ==
    /\ [](SyncFailed => pc \in {"finally", "exit"})
    /\ [][(pc \in SyncPcs /\ exc' = "mysql.connector.Error") =>
             (pc' = "finally" /\ UNCHANGED <<committed, idx, ok, errors, r>>)]_vars
    /\ [][(SyncFailed /\ pc = "finally") =>
             /\ pc' = "exit"
             /\ exit_status' # 0
             /\ UNCHANGED <<committed, idx, ok, errors, r>>
             /\ trailhead_user' = committed.trailhead_user
             /\ trailhead_cert' = committed.trailhead_cert
             /\ trailhead_user_cert' = committed.trailhead_user_cert]_vars

\* the second username's sync fails after the first one's rows were written
C13_Witness ==
    /\ pc = "finally"
    /\ SyncFailed
    /\ ok = 1
    /\ trailhead_user_cert # {}
    /\ committed.trailhead_user_cert = {}

----------------------------------------------------------------------------
(* C14 *)

\* this step ends the turn of the username at position idx
SyncFinishes == pc \in SyncPcs /\ pc' \notin SyncPcs /\ pc' # "finally"
FetchFailsSoftly == pc = "fetch" /\ pc' \in {"fetch", "commit"} /\ idx' # idx

\* C14: the loop of main takes the roster usernames one by one in roster order:
\* a fetch is for the username at the loop's position, the position moves on by
\* one exactly when that username's turn ends in a counted success (its sync
\* has finished) or a counted error, every earlier username has been counted
\* when a fetch or a sync is under way, and a run that completes has counted
\* every roster username once.
C14_SequentialSinglePass ==
    /\ [](pc \in {"fetch"} \cup SyncPcs =>
             idx \in 1..Len(profiles) /\ ok + errors = idx - 1)
    /\ []((pc \in {"commit", "export"}
             \/ (pc \in {"finally", "exit"} /\ exc = "none" /\ profiles # <<>>)) =>
             idx = Len(profiles) + 1 /\ ok + errors = Len(profiles))
    /\ [][(FetchRan /\ exc' = "none") => r'.Username = profiles[idx]]_vars
    /\ [][(pc \in {"fetch"} \cup SyncPcs) =>
             /\ profiles' = profiles
             /\ idx' = (IF SyncFinishes \/ FetchFailsSoftly THEN idx + 1 ELSE idx)
             /\ ok' = (IF SyncFinishes THEN ok + 1 ELSE ok)
             /\ errors' = (IF FetchFailsSoftly THEN errors + 1 ELSE errors)
             /\ (pc' = "fetch" /\ pc # "fetch") => SyncFinishes
             /\ (pc' \in SyncPcs /\ pc = "fetch") =>
                    (IsSuccessRecord(r') /\ pc' = "upsert_user")]_vars

\* a run over two usernames has completed, one synced and one in error
C14_Witness ==
    /\ pc = "exit"
    /\ exc = "none"
    /\ Len(profiles) = 2
    /\ ok = 1
    /\ errors = 1

----------------------------------------------------------------------------
(* C15 *)

\* the service gave no answer to extract from
TransportFailure(resp) ==
    resp.post_raises \/ resp.status_code # 200 \/ ~resp.is_json

IsNormalized(c) ==
    /\ DOMAIN c = {"title", "product", "dateCompleted", "dateExpired"}
    /\ c.title # None /\ c.title # <<>>
    /\ Len(c.dateCompleted) = 3
    /\ (c.dateExpired = None \/ Len(c.dateExpired) = 3)

\* C15: what fetch_certifications returned carries the username and either a
\* non-empty error reason or a list of normalized records, never both and never
\* neither; a failed request, a status other than 200 and a body that is not
\* JSON give the error form whatever the body holds; and main is inside
\* sync_user_to_db only with the success form in hand.
C15_TaggedVariant ==
    /\ r # NoResult =>
          /\ "Username" \in DOMAIN r /\ r.Username # None
          /\ IsErrorRecord(r) # IsSuccessRecord(r)
          /\ IsErrorRecord(r) =>
                (DOMAIN r = {"Username", "Error"} /\ r.Error # "")
          /\ IsSuccessRecord(r) =>
                /\ DOMAIN r = {"Username", "CertificationsRaw"}
                /\ \A k \in 1..Len(r.CertificationsRaw) :
                      IsNormalized(r.CertificationsRaw[k])
    /\ (r # NoResult /\ TransportFailure(response)) =>
          /\ IsErrorRecord(r)
          /\ r.Error = (IF response.post_raises
                        THEN "Request failed: " \o response.reason
                        ELSE IF response.status_code # 200
                        THEN "HTTP " \o ToString(response.status_code)
                        ELSE "Invalid JSON: " \o response.reason)
    /\ pc \in SyncPcs => (IsSuccessRecord(r) /\ ~HasError(r))

\* the answer for the second username was a 404 whose body holds a profile
C15_Witness ==
    /\ pc = "commit"
    /\ idx = 3
    /\ response.status_code = 404
    /\ response.body # JNull
    /\ IsErrorRecord(r)
    /\ r.Username = Ghost
    /\ errors = 1

----------------------------------------------------------------------------
(* C16 *)

UserRows(tbl, username) == {row \in tbl : row.username = username}

OneRowPerUsername(tbl) ==
    \A a, b \in tbl : a.username = b.username => a = b

\* C16: trailhead_user never holds two rows of one username, in the working
\* state and in the committed one; when upsert_user returns, whatever the list
\* that is synced, exactly one row of the username exists and the call has
\* returned its id; and the id of a username's row is the same in every state,
\* so that every call for the username returns the same id.
C16_UserRowLifecycle ==
    /\ [](OneRowPerUsername(trailhead_user)
            /\ OneRowPerUsername(committed.trailhead_user))
    /\ [][UpsertUserRan =>
             /\ Cardinality(UserRows(trailhead_user', profiles[idx])) = 1
             /\ \A row \in UserRows(trailhead_user', profiles[idx]) :
                    user_id' = row.id
             /\ \A row \in UserRows(trailhead_user, profiles[idx]) :
                    user_id' = row.id]_vars
    /\ [][\A row \in trailhead_user : \A row2 \in trailhead_user' :
             row.username = row2.username => row.id = row2.id]_vars

\* in a second run the first roster username was synced with an empty list
C16_Witness ==
    /\ pc = "fetch"
    /\ runs = 2
    /\ idx = 2
    /\ ok = 1
    /\ IsSuccessRecord(r)
    /\ r.CertificationsRaw = <<>>
    /\ Cardinality(UserRows(trailhead_user, profiles[1])) = 1
    /\ user_id = UserRow(trailhead_user, profiles[1]).id

----------------------------------------------------------------------------
(* C17 *)

UniqueIds(tbl) == \A a, b \in tbl : a.id = b.id => a = b

\* C17: when upsert_cert returns, the id it returns is the id of a row with
\* the title and the product of the call, an absent product matching only an
\* absent product, and it is the id the pair's row had before the call if there
\* was one; ids name one row each, and a row, once written, keeps its id, title
\* and product for as long as it is not rolled back, for good once committed.
C17_DurableCertId ==
    /\ [](UniqueIds(trailhead_cert) /\ UniqueIds(committed.trailhead_cert))
    /\ [][UpsertCertRan =>
             LET c == r.CertificationsRaw[j] IN
             /\ \E row \in trailhead_cert' :
                    row.id = cert_id' /\ row.title = c.title
                                      /\ row.product = c.product
             /\ \A old \in CertRows(trailhead_cert, c.title, c.product) :
                    cert_id' = old.id]_vars
    /\ [][/\ pc # "finally" => trailhead_cert \subseteq trailhead_cert'
          /\ committed.trailhead_cert \subseteq committed'.trailhead_cert]_vars

\* the second username's record got the id under which the first username is
\* linked, a row of the same title and another product being in the table
C17_Witness ==
    /\ pc = "upsert_user_cert"
    /\ idx = 2
    /\ \E uc \in trailhead_user_cert :
          uc.cert_id = cert_id /\ uc.user_id # user_id
    /\ \E a, b \in trailhead_cert :
          /\ a.id = cert_id
          /\ a.product = NULL
          /\ b.title = a.title
          /\ b.product # NULL

----------------------------------------------------------------------------
(* C18 *)

\* the rows of trailhead_user_cert that link username to the pair
Links(st, username, title, product) ==
    {uc \in st.trailhead_user_cert :
        /\ \E u \in UserRows(st.trailhead_user, username) : uc.user_id = u.id
        /\ \E c \in CertRows(st.trailhead_cert, title, product) :
              uc.cert_id = c.id}

WellLinked(st) ==
    /\ \A uc \in st.trailhead_user_cert :
          /\ \E u \in st.trailhead_user : u.id = uc.user_id
          /\ \E c \in st.trailhead_cert : c.id = uc.cert_id
          /\ uc.date_completed # NULL
          /\ Len(uc.date_completed) = 3
    /\ \A a, b \in st.trailhead_user_cert :
          (a.user_id = b.user_id /\ a.cert_id = b.cert_id) => a = b

\* the sync of the username before the loop's position has completed with r
SyncCompleted ==
    /\ pc \in {"fetch", "commit", "export"}
    /\ idx > 1
    /\ IsSuccessRecord(r)

\* C18: once sync_user_to_db has completed for a username and its records,
\* each record has exactly one trailhead_user_cert row that links the
\* username's row to the row of the record's (title, product); and always, in
\* the working state and in the committed one, every trailhead_user_cert row
\* refers to an existing user row and an existing certification row, has a
\* date_completed, and is the only row of its (user_id, cert_id).
C18_RelationComplete ==
    /\ WellLinked(Store)
    /\ WellLinked(committed)
    /\ SyncCompleted =>
          \A k \in 1..Len(r.CertificationsRaw) :
             LET c == r.CertificationsRaw[k] IN
             Cardinality(Links(Store, profiles[idx - 1], c.title, c.product)) = 1

\* the second username's sync of two records has completed
C18_Witness ==
    /\ pc = "commit"
    /\ idx = 3
    /\ IsSuccessRecord(r)
    /\ Len(r.CertificationsRaw) = 2
    /\ r.CertificationsRaw[1].title = r.CertificationsRaw[2].title
    /\ Cardinality(trailhead_user_cert) >= 3

----------------------------------------------------------------------------
(* C19 *)

OtherUsers(tbl, username) == {row \in tbl : row.username # username}
OthersLinks(tbl, uid)     == {uc \in tbl : uc.user_id # uid}

\* C19: a step of sync_user_to_db for a username leaves the trailhead_user rows
\* of every other username as they are, and leaves every trailhead_user_cert
\* row of another user as it is: none is added, removed or changed.
C19_SyncFrame ==
    [][(pc \in SyncPcs) =>
         LET uid == UserRow(trailhead_user, profiles[idx]).id IN
         /\ OtherUsers(trailhead_user', profiles[idx])
               = OtherUsers(trailhead_user, profiles[idx])
         /\ OthersLinks(trailhead_user_cert', uid)
               = OthersLinks(trailhead_user_cert, uid)]_vars

\* the second username's sync has written a link to a certification that the
\* first username is linked to as well
C19_Witness ==
    /\ pc \in {"upsert_cert", "fetch", "commit"}
    /\ user_id # 0
    /\ profiles # <<>>
    /\ user_id = UserRow(trailhead_user, profiles[Len(profiles)]).id
    /\ \E a, b \in trailhead_user_cert :
          /\ a.user_id = user_id
          /\ b.user_id # user_id
          /\ a.cert_id = b.cert_id
          /\ a.date_expired # b.date_expired
    /\ trailhead_user_cert # committed.trailhead_user_cert

----------------------------------------------------------------------------
(* C20 *)

\* main holds the connection and has not left the try statement
InTry == pc \in {"setup", "fetch", "commit", "export", "finally"} \cup SyncPcs

\* C20: from get_db_connection returning until the finally clause the
\* connection is open and has not been closed; the finally clause closes it,
\* once, whatever ended the try block; so a run that had the connection ends
\* with it closed exactly once, be it after the export, after an empty roster,
\* after an exception of the fetch or after a failed statement. The empty
\* roster goes from load_profiles_from_db straight to the finally clause and
\* writes and commits nothing.
C20_ConnectionRelease ==
    /\ [](InTry => (conn = "open" /\ closes = 0))
    /\ []((pc = "exit" /\ exc # "setup") => (conn = "closed" /\ closes = 1))
    /\ []((pc = "exit" /\ exc = "setup") => (conn = "none" /\ closes = 0))
    /\ [][(pc = "finally") =>
             (pc' = "exit" /\ conn' = "closed" /\ closes' = closes + 1)]_vars
    /\ [][(InTry /\ pc # "finally" /\ exc' # "none") => pc' = "finally"]_vars
    /\ [][(pc = "setup" /\ pc' # "setup" /\ profiles' = <<>>) =>
             /\ pc' = "finally"
             /\ UNCHANGED <<trailhead_user, trailhead_cert, trailhead_user_cert,
                            committed>>]_vars

\* a run whose fetch raised has ended, the connection closed once
C20_Witness ==
    /\ pc = "exit"
    /\ exc = "AttributeError"
    /\ idx = 2
    /\ trailhead_cert # {}
    /\ conn = "closed"
    /\ closes = 1

====
